---- MODULE Spec2Model ----
(***************************************************************************)
(* Model of the Trading Bots Monitor API (src/main.py).                    *)
(*                                                                         *)
(* The server is stateless: every request runs one handler from scratch.   *)
(* A state of the model is the last request served: the handler invoked    *)
(* (endpoint), its inputs (request), the value it returned (response) and  *)
(* the handler's local values that the response does not carry (locals).   *)
(*                                                                         *)
(* The handlers read two ambient inputs: the clock (now_utc) and the       *)
(* process-wide generator of the random module.  The clock is a number of  *)
(* seconds since the epoch.  The generator is a 16-bit linear congruential *)
(* generator whose state at the start of a request is drawn from Seeds;    *)
(* each draw of the code advances it once, in the order the code draws.    *)
(*                                                                         *)
(* Fixed-point numbers: a value the code rounds to n decimals is the       *)
(* integer number of 10^-n units (12.34 is 1234 after round(x, 2)).        *)
(***************************************************************************)
EXTENDS Integers, Sequences, FiniteSets, TLC

VARIABLES endpoint, request, response, locals

vars == <<endpoint, request, response, locals>>

(***************************************************************************)
(* Bounds of the model.                                                    *)
(***************************************************************************)
MaxSeed == 255
MaxLimit == 6
MaxPctArg == 12

Seeds == 0..MaxSeed

\* Clock readings (seconds since the epoch): mid-day, and one second
\* before midnight so that minute, hour and day carries all happen.
NowSamples == {302417, 345599}

\* Values of the free-form timeframe query parameter.
Timeframes == {"24h", "7d"}

(***************************************************************************)
(* None and values: Python's None is the empty tuple, a present value v    *)
(* the one-element tuple <<v>>.                                            *)
(***************************************************************************)
None == << >>

Some(v) == <<v>>

(***************************************************************************)
(* Reference tables.                                                       *)
(***************************************************************************)
TOKENS == <<"SOL", "BONK", "JUP", "PYTH", "WIF", "GECKO", "ORCA", "MNGO", "RAY", "USDC">>

STRATEGIES ==
    << [name |-> "MeanRevert", version |-> "1.4.2"],
       [name |-> "Momentum", version |-> "2.1.0"],
       [name |-> "ArbX", version |-> "0.9.7"],
       [name |-> "LLMScout", version |-> "0.6.5"],
       [name |-> "GridAlpha", version |-> "3.0.1"] >>

\* f"Player-{i:02d}" for i in range(1, 13): the prefix and the two digits.
PLAYERS == [i \in 1..12 |-> <<"Player-", i \div 10, i % 10>>]

STATUSES == <<"Searching", "In Position", "Managing", "Exiting">>

(***************************************************************************)
(* The random module.                                                      *)
(***************************************************************************)
\* One step of the generator.
RngStep(s) == (s * 25173 + 13849) % 65536

\* The generator's state when a request starts.
RngSeed(seed) == RngStep((seed * 7919 + 104729) % 65536)

\* The number a state yields: its two bytes swapped, so that the
\* well-mixed high bits decide the small ranges.
RngOut(s) == (s \div 256) + 256 * (s % 256)

\* random.randint(a, b): an integer of a..b.
randint(s, a, b) == a + (RngOut(s) % (b - a + 1))

\* random.choice(seq).
choice(s, seq) == seq[1 + (RngOut(s) % Len(seq))]

\* round(random.uniform(lo, hi), n), with lo and hi in 10^-n units.
uniform(s, lo, hi) == lo + (RngOut(s) % (hi - lo + 1))

\* random.random(), in hundredths: 0..99.
random(s) == RngOut(s) % 100

(***************************************************************************)
(* Clock and timestamps.                                                   *)
(***************************************************************************)
\* timedelta(minutes=m), timedelta(hours=h), in seconds.
minutes(m) == 60 * m

hours(h) == 3600 * h

\* datetime.isoformat(): the fields of the printed timestamp,
\* <<day, hour, minute, second>>.
isoformat(t) == << t \div 86400, (t % 86400) \div 3600, (t % 3600) \div 60, t % 60 >>

\* round_div with the quotient cut instead of rounded.
round_div_truncate(n, d, up) ==
    LET nn == IF d < 0 THEN -n ELSE n
        dd == IF d < 0 THEN -d ELSE d
    IN  nn \div dd

(***************************************************************************)
(* round(x, 2) of the quotient n / d (d # 0), in hundredths when n is in   *)
(* ten-thousandths of d: the nearest integer to n / d.  When n / d lies    *)
(* exactly half way, the binary floating-point quotient the code rounds    *)
(* lies a little above or below it, and `up` is the side it falls on.      *)
(***************************************************************************)
round_div(n, d, up) ==
    LET nn == IF d < 0 THEN -n ELSE n
        dd == IF d < 0 THEN -d ELSE d
        q == nn \div dd
        r == nn % dd
    IN  IF 2 * r > dd THEN q + 1
        ELSE IF 2 * r < dd THEN q
        ELSE IF up THEN q + 1 ELSE q

\* pct(a, b), in hundredths of a percent.
pct(a, b, up) == IF b = 0 THEN 0 ELSE round_div(a * 10000, b, up)

(***************************************************************************)
(* GET /api/dashboard/summary                                              *)
(***************************************************************************)
\* sample_wins with the range's upper end fixed at the most closed_positions
\* can be, instead of closed_positions.
sample_wins_fixed_upper(s, closed_positions) ==
    IF closed_positions # 0 THEN randint(s, 25, 320) ELSE 0

\* wins = random.randint(25, closed_positions) if closed_positions else 0
sample_wins(s, closed_positions) ==
    IF closed_positions # 0 THEN randint(s, 25, closed_positions) ELSE 0

dashboard_summary(timeframe, seed, up) ==
    LET s1 == RngSeed(seed)
        total_revenue_sol == uniform(s1, 12000, 62000)
        s2 == RngStep(s1)
        active_positions == randint(s2, 8, 42)
        s3 == RngStep(s2)
        closed_positions == randint(s3, 50, 320)
        \* the generator is drawn from only when closed_positions # 0
        s4 == IF closed_positions # 0 THEN RngStep(s3) ELSE s3
        wins == sample_wins(s4, closed_positions)
        win_rate == pct(wins, closed_positions, up)
        s5 == RngStep(s4)
        s6 == RngStep(s5)
        s7 == RngStep(s6)
        s8 == RngStep(s7)
        s9 == RngStep(s8)
        s10 == RngStep(s9)
        s11 == RngStep(s10)
        s12 == RngStep(s11)
        s13 == RngStep(s12)
        secondary ==
            [ last_hour_pnl |-> uniform(s5, -350, 600),
              at_risk |-> randint(s6, 0, 6),
              players_in |-> [ count |-> randint(s7, 4, Len(PLAYERS)),
                               pct |-> uniform(s8, 250, 950) ],
              concentration |-> choice(s9, <<"bullish", "bearish", "neutral">>),
              best_asset |-> [ token |-> choice(s10, TOKENS),
                               pct |-> uniform(s11, 300, 2800) ],
              worst_asset |-> [ token |-> choice(s12, TOKENS),
                                pct |-> uniform(s13, -2200, -100) ] ]
        s14 == RngStep(s13)
        s15 == RngStep(s14)
        s16 == RngStep(s15)
        s17 == RngStep(s16)
    IN  [ response |->
            [ timeframe |-> timeframe,
              kpis |->
                [ total_revenue_sol |-> total_revenue_sol,
                  total_revenue_change_pct |-> uniform(s14, -800, 1800),
                  active_positions |-> active_positions,
                  active_positions_change_pct |-> uniform(s15, -1200, 1500),
                  closed_positions |-> closed_positions,
                  closed_positions_change_pct |-> uniform(s16, -1000, 1000),
                  win_rate_pct |-> win_rate,
                  avg_performance_pct |-> uniform(s17, -120, 320) ],
              secondary |-> secondary ],
          locals |-> [ wins |-> wins ] ]

GetDashboardSummary ==
    /\ endpoint = "none"
    /\ \E timeframe \in Timeframes, seed \in Seeds, up \in BOOLEAN :
        LET r == dashboard_summary(timeframe, seed, up)
        IN  /\ endpoint' = "dashboard_summary"
            /\ request' = [timeframe |-> timeframe]
            /\ response' = r.response
            /\ locals' = r.locals

(***************************************************************************)
(* GET /api/dashboard/live-pnl                                             *)
(***************************************************************************)
max(a, b) == IF a >= b THEN a ELSE b

min(a, b) == IF a <= b THEN a ELSE b

\* clamp_points without the upper clamp.
clamp_points_no_upper(points) == max(20, points)

\* points = max(20, min(points, 240))
clamp_points(points) == max(20, min(points, 240))

\* One iteration of the loop, for index i; s is the generator's state for
\* the iteration's first draw.  The point appended, and the state for the
\* next iteration's first draw.
live_pnl_body(i, start, s) ==
    LET ts == start + minutes(i)
        s2 == RngStep(s)
        outlier == random(s2) < 5
        s3 == RngStep(s2)
        val == IF outlier THEN uniform(s3, -1800, 1800) ELSE uniform(s, -500, 500)
    IN  [ data |-> << [t |-> isoformat(ts), v |-> val] >>,
          s |-> IF outlier THEN RngStep(s3) ELSE s3 ]

\* The iterations for i = lo, ..., hi - 1 in order (evaluated in two halves,
\* the second from the generator's state the first leaves).
RECURSIVE live_pnl_loop(_, _, _, _)
live_pnl_loop(lo, hi, start, s) ==
    IF lo >= hi THEN [data |-> << >>, s |-> s]
    ELSE IF hi = lo + 1 THEN live_pnl_body(lo, start, s)
    ELSE
        LET mid == (lo + hi) \div 2
            first == live_pnl_loop(lo, mid, start, s)
            second == live_pnl_loop(mid, hi, start, first.s)
        IN  [data |-> first.data \o second.data, s |-> second.s]

live_pnl(points, now, seed) ==
    LET n == clamp_points(points)
        start == now - minutes(n)
    IN  [series |-> live_pnl_loop(0, n, start, RngSeed(seed)).data]

\* Values of the points query parameter: below, at and above both clamps.
PointsSamples == {-7, 0, 10, 19, 20, 21, 60, 240, 241, 500}

GetLivePnl ==
    /\ endpoint = "none"
    /\ \E points \in PointsSamples, now \in NowSamples, seed \in Seeds :
        /\ endpoint' = "live_pnl"
        /\ request' = [points |-> points, now |-> now]
        /\ response' = live_pnl(points, now, seed)
        /\ locals' = None

(***************************************************************************)
(* GET /api/positions/open                                                 *)
(***************************************************************************)
\* count_status with the "In Position" bucket compared against a label
\* spelled differently from the rows'.
count_status_mislabelled(rows, status) ==
    LET label == IF status = "In Position" THEN "In position" ELSE status
    IN  Cardinality({i \in 1..Len(rows) : rows[i].status = label})

\* sum(1 for r in rows if r["status"] == status)
RECURSIVE count_status(_, _)
count_status(rows, status) ==
    IF rows = << >> THEN 0
    ELSE (IF Head(rows).status = status THEN 1 ELSE 0) + count_status(Tail(rows), status)

\* The loop body, `left` more times; s is the generator's state for the
\* next draw.
RECURSIVE open_positions_loop(_, _, _, _)
open_positions_loop(left, now, s, rows) ==
    IF left = 0 THEN rows
    ELSE
        LET player == choice(s, PLAYERS)
            s2 == RngStep(s)
            status == choice(s2, STATUSES)
            s3 == RngStep(s2)
            token == choice(s3, TOKENS)
            s4 == RngStep(s3)
            strat == choice(s4, STRATEGIES)
            s5 == RngStep(s4)
            enter_time == now - minutes(randint(s5, 10, 360))
            s6 == RngStep(s5)
            pnl_sol == uniform(s6, -3200, 6500)
            s7 == RngStep(s6)
            pnl_pct == uniform(s7, -1200, 2200)
            s8 == RngStep(s7)
            s9 == RngStep(s8)
            row == [ player |-> player,
                     connected |-> random(s8) > 8,
                     status |-> status,
                     token |-> token,
                     strategy |-> <<strat.name, " ", strat.version>>,
                     time_in_position |-> randint(s9, 5, 360),
                     pnl_sol |-> pnl_sol,
                     pnl_pct |-> pnl_pct,
                     entered_at |-> isoformat(enter_time) ]
        IN  open_positions_loop(left - 1, now, RngStep(s9), Append(rows, row))

open_positions(now, seed) ==
    LET s1 == RngSeed(seed)
        rows == open_positions_loop(randint(s1, 12, 28), now, RngStep(s1), << >>)
        header == [ searching |-> count_status(rows, "Searching"),
                    in_position |-> count_status(rows, "In Position"),
                    managing |-> count_status(rows, "Managing"),
                    exiting |-> count_status(rows, "Exiting") ]
    IN  [summary |-> header, rows |-> rows]

GetOpenPositions ==
    /\ endpoint = "none"
    /\ \E now \in NowSamples, seed \in Seeds :
        /\ endpoint' = "open_positions"
        /\ request' = [now |-> now]
        /\ response' = open_positions(now, seed)
        /\ locals' = None

(***************************************************************************)
(* GET /api/concentration/tokens and GET /api/performance/tokens           *)
(***************************************************************************)
\* The loop over TOKENS from index k on; s is the generator's state for the
\* next draw.
RECURSIVE token_concentration_loop(_, _, _)
token_concentration_loop(k, s, items) ==
    IF k > Len(TOKENS) THEN items
    ELSE
        LET s2 == RngStep(s)
            s3 == RngStep(s2)
            item == [ token |-> TOKENS[k],
                      pools |-> randint(s, 1, 14),
                      risk |-> choice(s2, <<"Low", "Medium", "High">>),
                      pnl_sol |-> uniform(s3, -2500, 6000) ]
        IN  token_concentration_loop(k + 1, RngStep(s3), Append(items, item))

token_concentration(seed) ==
    [items |-> token_concentration_loop(1, RngSeed(seed), << >>)]

\* token_performance_loop stopping before the last token.
RECURSIVE token_performance_loop_short(_, _, _)
token_performance_loop_short(k, s, bars) ==
    IF k >= Len(TOKENS) THEN bars
    ELSE token_performance_loop_short(k + 1, RngStep(s),
             Append(bars, [token |-> TOKENS[k], pnl_sol |-> uniform(s, -4000, 8000)]))

RECURSIVE token_performance_loop(_, _, _)
token_performance_loop(k, s, bars) ==
    IF k > Len(TOKENS) THEN bars
    ELSE token_performance_loop(k + 1, RngStep(s),
             Append(bars, [token |-> TOKENS[k], pnl_sol |-> uniform(s, -4000, 8000)]))

token_performance(timeframe, seed) ==
    [ timeframe |-> timeframe,
      bars |-> token_performance_loop(1, RngSeed(seed), << >>) ]

GetTokenConcentration ==
    /\ endpoint = "none"
    /\ \E seed \in Seeds :
        /\ endpoint' = "token_concentration"
        /\ request' = None
        /\ response' = token_concentration(seed)
        /\ locals' = None

GetTokenPerformance ==
    /\ endpoint = "none"
    /\ \E timeframe \in Timeframes, seed \in Seeds :
        /\ endpoint' = "token_performance"
        /\ request' = [timeframe |-> timeframe]
        /\ response' = token_performance(timeframe, seed)
        /\ locals' = None

(***************************************************************************)
(* GET /api/strategies/best and GET /api/strategies/worst                  *)
(***************************************************************************)
\* list.sort(key=total_pnl_sol, reverse=reverse): a stable sort, which
\* keeps rows of equal key in their order under either direction.  The
\* row x goes behind every row of `sorted` that is not to follow it.
RECURSIVE insert_by_pnl(_, _, _)
insert_by_pnl(x, sorted, reverse) ==
    IF sorted = << >> THEN <<x>>
    ELSE
        LET h == Head(sorted)
            x_first == IF reverse THEN x.total_pnl_sol > h.total_pnl_sol
                                  ELSE x.total_pnl_sol < h.total_pnl_sol
        IN  IF x_first THEN <<x>> \o sorted
            ELSE <<h>> \o insert_by_pnl(x, Tail(sorted), reverse)

RECURSIVE sort_by_pnl(_, _)
sort_by_pnl(items, reverse) ==
    IF items = << >> THEN << >>
    ELSE insert_by_pnl(items[Len(items)],
                       sort_by_pnl(SubSeq(items, 1, Len(items) - 1), reverse),
                       reverse)

\* items[:n]
take(items, n) == SubSeq(items, 1, min(n, Len(items)))

\* The loop over STRATEGIES from index k on.
RECURSIVE best_strategies_loop(_, _, _)
best_strategies_loop(k, s, items) ==
    IF k > Len(STRATEGIES) THEN items
    ELSE
        LET s2 == RngStep(s)
            s3 == RngStep(s2)
            s4 == RngStep(s3)
            item == [ strategy |-> <<STRATEGIES[k].name, " ", STRATEGIES[k].version>>,
                      positions |-> randint(s, 50, 900),
                      total_pnl_sol |-> uniform(s2, 1000, 52000),
                      avg_pct |-> uniform(s3, 150, 1200),
                      win_rate |-> uniform(s4, 5200, 7800) ]
        IN  best_strategies_loop(k + 1, RngStep(s4), Append(items, item))

\* best_strategies_result cutting to 3 rows before sorting.
best_strategies_truncate_first(items) == sort_by_pnl(take(items, 3), TRUE)

\* items.sort(...); return {"items": items[:3]}
best_strategies_result(items) == take(sort_by_pnl(items, TRUE), 3)

best_strategies(seed) ==
    LET items == best_strategies_loop(1, RngSeed(seed), << >>)
    IN  [ response |-> [items |-> best_strategies_result(items)],
          locals |-> [items |-> items] ]

\* The loop for i, ..., 2.
RECURSIVE worst_strategies_loop(_, _, _)
worst_strategies_loop(i, s, items) ==
    IF i >= 3 THEN items
    ELSE
        LET st == choice(s, STRATEGIES)
            s2 == RngStep(s)
            s3 == RngStep(s2)
            s4 == RngStep(s3)
            s5 == RngStep(s4)
            item == [ strategy |-> <<st.name, " ", st.version>>,
                      positions |-> randint(s2, 40, 600),
                      total_pnl_sol |-> uniform(s3, -22000, -500),
                      avg_pct |-> uniform(s4, -1200, -50),
                      win_rate |-> uniform(s5, 2200, 4800) ]
        IN  worst_strategies_loop(i + 1, RngStep(s5), Append(items, item))

worst_strategies(seed) ==
    LET items == worst_strategies_loop(0, RngSeed(seed), << >>)
    IN  [ response |-> [items |-> sort_by_pnl(items, FALSE)],
          locals |-> [items |-> items] ]

GetBestStrategies ==
    /\ endpoint = "none"
    /\ \E seed \in Seeds :
        LET r == best_strategies(seed)
        IN  /\ endpoint' = "best_strategies"
            /\ request' = None
            /\ response' = r.response
            /\ locals' = r.locals

GetWorstStrategies ==
    /\ endpoint = "none"
    /\ \E seed \in Seeds :
        LET r == worst_strategies(seed)
        IN  /\ endpoint' = "worst_strategies"
            /\ request' = None
            /\ response' = r.response
            /\ locals' = r.locals

(***************************************************************************)
(* GET /api/monitor/overview                                               *)
(***************************************************************************)
\* The loop for i, ..., 23; s is the generator's state for the next draw.
\* The bars, and the generator's state after the loop.
RECURSIVE monitor_overview_loop(_, _, _, _)
monitor_overview_loop(i, start, s, bars) ==
    IF i >= 24 THEN [bars |-> bars, s |-> s]
    ELSE
        LET ts == start + hours(i)
        IN  monitor_overview_loop(i + 1, start, RngStep(s),
                Append(bars, [t |-> isoformat(ts), v |-> uniform(s, -1500, 2200)]))

\* sum_values leaving out the last bar.
sum_values_but_last(bars) ==
    LET RECURSIVE upto(_)
        upto(k) == IF k = 0 THEN 0 ELSE upto(k - 1) + bars[k].v
    IN  upto(Len(bars) - 1)

\* sum(b["v"] for b in bars)
RECURSIVE sum_values(_)
sum_values(bars) ==
    IF bars = << >> THEN 0 ELSE Head(bars).v + sum_values(Tail(bars))

\* sum(1 for b in bars if b["v"] > 0)
RECURSIVE count_positive(_)
count_positive(bars) ==
    IF bars = << >> THEN 0
    ELSE (IF Head(bars).v > 0 THEN 1 ELSE 0) + count_positive(Tail(bars))

\* round(sum, 2) of a sum of hundredths is the sum; the average is rounded.
monitor_overview(now, seed, up) ==
    LET start == now - hours(24)
        loop == monitor_overview_loop(0, start, RngSeed(seed), << >>)
        bars == loop.bars
        stats == [ net_pnl |-> sum_values(bars),
                   total_positions |-> randint(loop.s, 60, 420),
                   profitable_hours |-> count_positive(bars),
                   avg_per_hour |-> round_div(sum_values(bars), Len(bars), up) ]
    IN  [bars |-> bars, stats |-> stats]

GetMonitorOverview ==
    /\ endpoint = "none"
    /\ \E now \in NowSamples, seed \in Seeds, up \in BOOLEAN :
        /\ endpoint' = "monitor_overview"
        /\ request' = [now |-> now]
        /\ response' = monitor_overview(now, seed, up)
        /\ locals' = None

(***************************************************************************)
(* GET /api/feed                                                           *)
(***************************************************************************)
\* feed_pnl giving a pnl to CLOSE only.
feed_pnl_close_only(s, action) ==
    IF action = "CLOSE" THEN Some(uniform(s, -800, 1400)) ELSE None

\* pnl = round(random.uniform(-8, 14), 2) if action in ("CLOSE", "ADJUST") else None
feed_pnl(s, action) ==
    IF action \in {"CLOSE", "ADJUST"} THEN Some(uniform(s, -800, 1400)) ELSE None

\* The loop for i, ..., limit - 1; s is the generator's state for the next
\* draw.
RECURSIVE live_feed_loop(_, _, _, _, _)
live_feed_loop(i, limit, base, s, items) ==
    IF i >= limit THEN items
    ELSE
        LET ts == base - minutes(i * randint(s, 1, 3))
            s2 == RngStep(s)
            action == choice(s2, <<"OPEN", "CLOSE", "ALERT", "ADJUST">>)
            s3 == RngStep(s2)
            player == choice(s3, PLAYERS)
            s4 == RngStep(s3)
            token == choice(s4, TOKENS)
            s5 == RngStep(s4)
            pnl == feed_pnl(s5, action)
            \* the generator is drawn from only for CLOSE and ADJUST
            sn == IF pnl # None THEN RngStep(s5) ELSE s5
            item == [ id |-> 10000 + i,
                      player |-> player,
                      action |-> action,
                      token |-> token,
                      timestamp |-> isoformat(ts),
                      pnl |-> pnl ]
        IN  live_feed_loop(i + 1, limit, base, sn, Append(items, item))

live_feed(limit, now, seed) ==
    [items |-> live_feed_loop(0, limit, now, RngSeed(seed), << >>)]

GetLiveFeed ==
    /\ endpoint = "none"
    /\ \E limit \in -1..MaxLimit, now \in NowSamples, seed \in Seeds :
        /\ endpoint' = "live_feed"
        /\ request' = [limit |-> limit, now |-> now]
        /\ response' = live_feed(limit, now, seed)
        /\ locals' = None

(***************************************************************************)
(* GET /test                                                               *)
(*                                                                         *)
(* The database module is outside the repository; `probe` is what it does  *)
(* when the handler uses it:                                               *)
(*   import  "raises" (the import raises probe.exc), "none" (db is None)   *)
(*           or "handle" (db is an object);                                *)
(*   has_name  whether the object has a name attribute;                    *)
(*   listing  "ok" (list_collection_names returns probe.collections) or    *)
(*            "raises" (it raises probe.exc).                              *)
(* An exception is [class, message]; the message is a sequence of          *)
(* characters.  The texts are those of the code without their leading      *)
(* symbol.                                                                 *)
(***************************************************************************)
\* Whether `except clause` catches an exception of class cls.
catches(clause, cls) ==
    CASE clause = "ImportError" -> cls \in {"ImportError", "ModuleNotFoundError"}
      [] clause = "Exception" ->
            cls \in {"ImportError", "ModuleNotFoundError", "RuntimeError", "ConnectionError"}
      [] OTHER -> FALSE

\* os.getenv(name) is None or a string; a string is true when not empty.
truthy(v) == v # None /\ v[1] # ""

\* The body of the outer try when the import succeeded: the response, and
\* the exception that leaves the body (None when none does).
test_database_body(resp, probe) ==
    IF probe.import = "handle" THEN
        LET r1 == [resp EXCEPT
                     !.database = <<"Available">>,
                     !.database_url = Some("Configured"),
                     !.database_name = IF probe.has_name THEN Some("db.name")
                                       ELSE Some("Connected"),
                     !.connection_status = "Connected"]
        IN  IF probe.listing = "ok" THEN
                [ response |-> [r1 EXCEPT !.collections = take(probe.collections, 10),
                                          !.database = <<"Connected & Working">>],
                  raised |-> None ]
            ELSE IF catches("Exception", probe.exc.class) THEN
                [ response |-> [r1 EXCEPT !.database =
                                   <<"Connected but Error: ", take(probe.exc.message, 50)>>],
                  raised |-> None ]
            ELSE [response |-> r1, raised |-> Some(probe.exc)]
    ELSE
        [ response |-> [resp EXCEPT !.database = <<"Available but not initialized">>],
          raised |-> None ]

\* test_database_except without the `except Exception` clause.
test_database_except_import_only(resp, e) ==
    IF catches("ImportError", e.class) THEN
        [ response |-> [resp EXCEPT !.database =
                           <<"Database module not found (run enable-database first)">>],
          raised |-> None ]
    ELSE [response |-> resp, raised |-> Some(e)]

\* The except clauses of the outer try, for the exception e that left its
\* body.
test_database_except(resp, e) ==
    IF catches("ImportError", e.class) THEN
        [ response |-> [resp EXCEPT !.database =
                           <<"Database module not found (run enable-database first)">>],
          raised |-> None ]
    ELSE IF catches("Exception", e.class) THEN
        [ response |-> [resp EXCEPT !.database = <<"Error: ", take(e.message, 50)>>],
          raised |-> None ]
    ELSE [response |-> resp, raised |-> Some(e)]

\* The handler: what it returns (None when an exception leaves it), and
\* the exception that leaves it (None when it returns).
test_database(probe, environ) ==
    LET response0 == [ backend |-> "Running",
                       database |-> <<"Not Available">>,
                       database_url |-> None,
                       database_name |-> None,
                       connection_status |-> "Not Connected",
                       collections |-> << >> ]
        body == IF probe.import = "raises"
                THEN [response |-> response0, raised |-> Some(probe.exc)]
                ELSE test_database_body(response0, probe)
        tried == IF body.raised = None THEN body
                 ELSE test_database_except(body.response, body.raised[1])
    IN  IF tried.raised # None THEN [response |-> None, raised |-> tried.raised]
        ELSE
            [ response |->
                [tried.response EXCEPT
                   !.database_url = Some(IF truthy(environ.DATABASE_URL)
                                         THEN "Set" ELSE "Not Set"),
                   !.database_name = Some(IF truthy(environ.DATABASE_NAME)
                                          THEN "Set" ELSE "Not Set")],
              raised |-> None ]

\* Exceptions the database module may raise, with messages of 0, 7, 50
\* and 51 characters.
ProbeMessages == {[i \in 1..n |-> i] : n \in {0, 7, 50, 51}}

ProbeExceptions ==
    [ class : {"ImportError", "ModuleNotFoundError", "RuntimeError", "ConnectionError"},
      message : ProbeMessages ]

NoException == [class |-> "none", message |-> << >>]

\* list_collection_names() results of 0, 3, 10 and 11 names.
ProbeCollections == {[i \in 1..n |-> <<"collection", i>>] : n \in {0, 3, 10, 11}}

Probes ==
    {[import |-> "raises", has_name |-> FALSE, listing |-> "none",
      collections |-> << >>, exc |-> e] : e \in ProbeExceptions}
    \cup {[import |-> "none", has_name |-> FALSE, listing |-> "none",
           collections |-> << >>, exc |-> NoException]}
    \cup {[import |-> "handle", has_name |-> h, listing |-> "ok",
           collections |-> c, exc |-> NoException] :
              h \in BOOLEAN, c \in ProbeCollections}
    \cup {[import |-> "handle", has_name |-> h, listing |-> "raises",
           collections |-> << >>, exc |-> e] :
              h \in BOOLEAN, e \in ProbeExceptions}

Environs ==
    [ DATABASE_URL : {None, Some(""), Some("mongodb://localhost")},
      DATABASE_NAME : {None, Some("app")} ]

GetTest ==
    /\ endpoint = "none"
    /\ \E probe \in Probes, environ \in Environs :
        LET r == test_database(probe, environ)
        IN  /\ endpoint' = "test_database"
            /\ request' = [probe |-> probe, environ |-> environ]
            /\ response' = r.response
            /\ locals' = [raised |-> r.raised]

(***************************************************************************)
(* pct, called on its own                                                  *)
(***************************************************************************)
\* Denominators beyond MaxPctArg, where the quotient can lie half way
\* between two hundredths.
PctTieDenominators == {64, 160, 320}

CallPct ==
    /\ endpoint = "none"
    /\ \E a \in -MaxPctArg..MaxPctArg,
          b \in (-MaxPctArg..MaxPctArg) \cup PctTieDenominators,
          up \in BOOLEAN :
        /\ endpoint' = "pct"
        /\ request' = [a |-> a, b |-> b]
        /\ response' = pct(a, b, up)
        /\ locals' = None

(***************************************************************************)
(* The server: a request runs one handler; its response is sent and every  *)
(* value of the request is discarded.                                      *)
(***************************************************************************)
Init ==
    /\ endpoint = "none"
    /\ request = None
    /\ response = None
    /\ locals = None

Respond ==
    /\ endpoint # "none"
    /\ endpoint' = "none"
    /\ request' = None
    /\ response' = None
    /\ locals' = None

Next ==
    \/ GetDashboardSummary
    \/ GetLivePnl
    \/ GetOpenPositions
    \/ GetTokenConcentration
    \/ GetTokenPerformance
    \/ GetBestStrategies
    \/ GetWorstStrategies
    \/ GetMonitorOverview
    \/ GetLiveFeed
    \/ GetTest
    \/ CallPct
    \/ Respond

Spec == Init /\ [][Next]_vars

(***************************************************************************)
(* Properties.                                                             *)
(***************************************************************************)
\* The instant a printed timestamp denotes, in seconds since the epoch.
instant(iso) == iso[1] * 86400 + iso[2] * 3600 + iso[3] * 60 + iso[4]

\* The number of rows of a sequence with a given status.
rows_with_status(rows, status) ==
    Cardinality({i \in 1..Len(rows) : rows[i].status = status})

\* C1: in every open_positions response each of the four summary counts is
\* the number of rows with that status, and the four counts add up to the
\* number of rows, which is between 12 and 28.
C1_SummaryCountsRows ==
    endpoint = "open_positions" =>
        LET rows == response.rows
            summary == response.summary
        IN  /\ Len(rows) \in 12..28
            /\ \A i \in 1..Len(rows) :
                  rows[i].status \in {STATUSES[k] : k \in 1..Len(STATUSES)}
            /\ summary.searching = rows_with_status(rows, "Searching")
            /\ summary.in_position = rows_with_status(rows, "In Position")
            /\ summary.managing = rows_with_status(rows, "Managing")
            /\ summary.exiting = rows_with_status(rows, "Exiting")
            /\ summary.searching + summary.in_position + summary.managing
                  + summary.exiting = Len(rows)

\* A response of 28 rows in which every status occurs.
C1_Witness ==
    /\ endpoint = "open_positions"
    /\ Len(response.rows) = 28
    /\ response.summary.searching > 0
    /\ response.summary.in_position > 0
    /\ response.summary.managing > 0
    /\ response.summary.exiting > 0

\* C2: for every integer points, the live_pnl series has max(20, min(points,
\* 240)) entries, 20 for points below 20 and 240 for points above 240, and
\* each entry's timestamp is one minute after the entry before it.
C2_SeriesLengthAndStep ==
    endpoint = "live_pnl" =>
        LET series == response.series
            points == request.points
            expected == IF points < 20 THEN 20 ELSE IF points > 240 THEN 240 ELSE points
        IN  /\ Len(series) = expected
            /\ \A i \in 1..(Len(series) - 1) :
                  instant(series[i + 1].t) = instant(series[i].t) + 60

\* points = 500 answered with 240 entries, the second a minute after the
\* first.
C2_Witness ==
    /\ endpoint = "live_pnl"
    /\ request.points = 500
    /\ Len(response.series) = 240
    /\ instant(response.series[2].t) = instant(response.series[1].t) + 60

\* C3: in every live_feed response the timestamps do not increase along the
\* list: each item's timestamp is at most that of the item before it.
C3_FeedTimestampsDecrease ==
    endpoint = "live_feed" =>
        LET items == response.items
        IN  \A i \in 1..(Len(items) - 1) :
                instant(items[i + 1].timestamp) <= instant(items[i].timestamp)

\* Whether the rows of a sequence are in descending (ascending) order of
\* total_pnl_sol.
descending(items) ==
    \A i \in 1..(Len(items) - 1) : items[i].total_pnl_sol >= items[i + 1].total_pnl_sol

ascending(items) ==
    \A i \in 1..(Len(items) - 1) : items[i].total_pnl_sol <= items[i + 1].total_pnl_sol

\* Whether `top` is `all` cut to its 3 highest rows: the rows of `top` are
\* rows of `all` at 3 different places, and no other row of `all` has a
\* higher total_pnl_sol than any of them.
three_highest(top, all) ==
    \E f \in [1..3 -> 1..Len(all)] :
        /\ \A i, j \in 1..3 : i # j => f[i] # f[j]
        /\ \A i \in 1..3 : top[i] = all[f[i]]
        /\ \A k \in 1..Len(all) :
              (\A i \in 1..3 : f[i] # k) =>
                  \A i \in 1..3 : all[k].total_pnl_sol <= top[i].total_pnl_sol

\* C4: best_strategies returns 3 items in descending order of total_pnl_sol,
\* the 3 highest of the 5 rows generated one per catalog strategy;
\* worst_strategies returns 3 items in ascending order of total_pnl_sol,
\* each below 0.
C4_Leaderboards ==
    /\ endpoint = "best_strategies" =>
          /\ Len(response.items) = 3
          /\ descending(response.items)
          /\ Len(locals.items) = 5
          /\ \A k \in 1..5 : locals.items[k].strategy[1] = STRATEGIES[k].name
          /\ three_highest(response.items, locals.items)
    /\ endpoint = "worst_strategies" =>
          /\ Len(response.items) = 3
          /\ ascending(response.items)
          /\ \A i \in 1..3 : response.items[i].total_pnl_sol < 0

\* A best_strategies response whose highest row was generated fourth or
\* fifth, and whose rows were not generated in descending order.
C4_Witness ==
    /\ endpoint = "best_strategies"
    /\ \E k \in 4..5 : response.items[1] = locals.items[k]
    /\ ~descending(locals.items)

\* The sum of the values of the first k bars.
RECURSIVE total(_, _)
total(bars, k) == IF k = 0 THEN 0 ELSE total(bars, k - 1) + bars[k].v

\* C5: every monitor_overview response has 24 bars, its net_pnl is the sum
\* of the bars' values and its profitable_hours is the number of bars whose
\* value is above 0.
C5_MonitorStats ==
    endpoint = "monitor_overview" =>
        LET bars == response.bars
        IN  /\ Len(bars) = 24
            /\ response.stats.net_pnl = total(bars, Len(bars))
            /\ response.stats.profitable_hours =
                  Cardinality({i \in 1..Len(bars) : bars[i].v > 0})

\* A response with bars above 0 and bars not above 0, and a net_pnl that
\* is not 0.
C5_Witness ==
    /\ endpoint = "monitor_overview"
    /\ response.stats.profitable_hours \in 1..23
    /\ response.stats.net_pnl # 0
    /\ \E i \in 1..24 : response.bars[i].v < 0

\* C6: in every live_feed response an item's pnl is null exactly when its
\* action is OPEN or ALERT and a number exactly when its action is CLOSE
\* or ADJUST.
C6_FeedPnlNullability ==
    endpoint = "live_feed" =>
        \A i \in 1..Len(response.items) :
            LET item == response.items[i]
            IN  /\ item.action \in {"OPEN", "CLOSE", "ALERT", "ADJUST"}
                /\ item.pnl = None <=> item.action \in {"OPEN", "ALERT"}
                /\ (Len(item.pnl) = 1 /\ item.pnl[1] \in Int)
                      <=> item.action \in {"CLOSE", "ADJUST"}

\* A response in which all four actions occur.
C6_Witness ==
    /\ endpoint = "live_feed"
    /\ \A a \in {"OPEN", "CLOSE", "ALERT", "ADJUST"} :
          \E i \in 1..Len(response.items) : response.items[i].action = a

\* C7: in every dashboard_summary response 0 <= wins <= closed_positions,
\* wins is at least 25 unless closed_positions is 0, where it is 0, and
\* win_rate_pct is between 0 and 100.
C7_WinsWithinClosed ==
    endpoint = "dashboard_summary" =>
        LET closed == response.kpis.closed_positions
            wins == locals.wins
        IN  /\ 0 <= wins /\ wins <= closed
            /\ closed # 0 => wins >= 25
            /\ closed = 0 => wins = 0
            /\ 0 <= response.kpis.win_rate_pct
            /\ response.kpis.win_rate_pct <= 10000

\* A response whose wins are within 5 of closed_positions.
C7_Witness ==
    /\ endpoint = "dashboard_summary"
    /\ locals.wins >= 25
    /\ response.kpis.closed_positions - locals.wins <= 5

\* C8: whatever the database probe does (module absent, import raising
\* another exception, handle None, listing succeeding, listing raising),
\* test_database returns a response, no exception leaves it, backend is
\* reported running and the outcome is a text in the database field.
C8_ProbeNeverRaises ==
    endpoint = "test_database" =>
        /\ locals.raised = None
        /\ response # None
        /\ response.backend = "Running"
        /\ LET probe == request.probe
               database == response.database
           IN  CASE probe.import = "raises"
                      /\ probe.exc.class \in {"ImportError", "ModuleNotFoundError"} ->
                        database = <<"Database module not found (run enable-database first)">>
                 [] probe.import = "raises"
                      /\ probe.exc.class \notin {"ImportError", "ModuleNotFoundError"} ->
                        /\ database[1] = "Error: "
                        /\ Len(database[2]) <= 50
                 [] probe.import = "none" ->
                        database = <<"Available but not initialized">>
                 [] probe.import = "handle" /\ probe.listing = "ok" ->
                        database = <<"Connected & Working">>
                 [] probe.import = "handle" /\ probe.listing = "raises" ->
                        /\ database[1] = "Connected but Error: "
                        /\ Len(database[2]) <= 50

\* The import raised an exception that is no ImportError, with a message
\* of 51 characters, and the response carries its first 50.
C8_Witness ==
    /\ endpoint = "test_database"
    /\ request.probe.import = "raises"
    /\ request.probe.exc.class = "RuntimeError"
    /\ Len(request.probe.exc.message) = 51
    /\ locals.raised = None
    /\ response.database[1] = "Error: "
    /\ Len(response.database[2]) = 50

\* The tokens of a sequence of rows, in the order of the rows.
tokens_of(rows) == [i \in 1..Len(rows) |-> rows[i].token]

\* C9: token_concentration and token_performance return one row per entry
\* of TOKENS: 10 rows, no token twice, every token present, in the order of
\* TOKENS.
C9_OneRowPerToken ==
    LET covers(rows) ==
            /\ Len(rows) = 10
            /\ Cardinality({rows[i].token : i \in 1..Len(rows)}) = Len(rows)
            /\ \A k \in 1..Len(TOKENS) : \E i \in 1..Len(rows) : rows[i].token = TOKENS[k]
            /\ tokens_of(rows) = TOKENS
    IN  /\ endpoint = "token_concentration" => covers(response.items)
        /\ endpoint = "token_performance" => covers(response.bars)

\* A token_concentration response whose first row is SOL and whose tenth
\* is USDC.
C9_Witness ==
    /\ endpoint = "token_concentration"
    /\ response.items[1].token = "SOL"
    /\ response.items[10].token = "USDC"

\* The absolute value.
abs(x) == IF x < 0 THEN -x ELSE x

\* C10: pct(a, 0) is 0.0, and for b # 0 pct(a, b) is a / b * 100 rounded to
\* 2 decimals: the hundredth nearest to it.
C10_PctRounds ==
    endpoint = "pct" =>
        LET a == request.a
            b == request.b
        IN  /\ b = 0 => response = 0
            /\ b # 0 => 2 * abs(response * b - 10000 * a) <= abs(b)

\* pct of a numerator other than 0 and the denominator 0.
C10_Witness ==
    /\ endpoint = "pct"
    /\ request.b = 0
    /\ request.a # 0
    /\ response = 0

====
